---- MODULE Spec2Model ----
(***************************************************************************)
(* A model of the bintree crate: src/src/lib.rs and                         *)
(* src/src/lang_extensions.rs.                                             *)
(*                                                                         *)
(* BinTree<T> { inner: T, left: Option<Box<BinTree<T>>>,                   *)
(*              right: Option<Box<BinTree<T>>> }                           *)
(*                                                                         *)
(* Every BinTree value in existence is a cell of `heap`, named by a node   *)
(* id.  An Option<Box<BinTree>> slot holds Nil (None) or the id of the     *)
(* cell the Box owns.  `roots` are the trees the caller owns directly      *)
(* (let-bindings and the Boxes that pop_left, take_left, ... return).      *)
(* Moving a value keeps its id; cloning and constructing allocate new      *)
(* cells; assigning over a slot or letting an owner go drops the cells it  *)
(* owned.  The crate never compares or prints an address, so the states    *)
(* are kept up to a renaming of the cells: every step ends by numbering    *)
(* the cells in the order the caller's trees reach them (Canon).           *)
(*                                                                         *)
(* The caller may hold at most MaxRoots trees of at most MaxNodes nodes    *)
(* in all; the heap itself has room for more, so that an operation can be  *)
(* applied to every state the caller can reach.                            *)
(***************************************************************************)
EXTENDS Integers, Sequences, FiniteSets, TLC

\* ---------------------------------------------------------------- bounds
MaxNodes == 4
MaxRoots == 2

Values == {1, 2}

\* The heap: room for every tree the caller holds, a clone of them all and
\* one more leaf.
Capacity == 2 * MaxNodes + 1
Nodes == 1..Capacity
Nil == 0
\* Option<T>: None, or Some(x).
None == <<>>
Some(x) == <<x>>
Options == {None} \cup {Some(x) : x \in Values}

VARIABLES heap, roots

vars == <<heap, roots>>

\* ------------------------------------------------------------------ cells
\* A cell that holds no BinTree.
Free == [inner |-> 0, left |-> Nil, right |-> Nil, live |-> FALSE]

\* struct BinTree<T> { inner, left, right }
BinTree(inner, l, r) == [inner |-> inner, left |-> l, right |-> r, live |-> TRUE]

Live(h) == {n \in Nodes : h[n].live}
FreeNodes(h) == {n \in Nodes : ~h[n].live}
EmptyHeap == [n \in Nodes |-> Free]

\* The cell a new value is placed in: the lowest free one.
Fresh(h) == CHOOSE n \in FreeNodes(h) : \A m \in FreeNodes(h) : n <= m

\* ---------------------------------------------------------- constructors
\* BinTree::new
new(h, inner) ==
    LET n == Fresh(h)
    IN  [h |-> [h EXCEPT ![n] = BinTree(inner, Nil, Nil)], ret |-> n]

\* A slip: the two children change places.
new_with_nodes_swapped(h, inner, l, r) ==
    LET a == new(h, l)
        b == new(a.h, r)
        n == Fresh(b.h)
    IN  [h |-> [b.h EXCEPT ![n] = BinTree(inner, b.ret, a.ret)], ret |-> n]

\* BinTree::new_with_nodes
new_with_nodes(h, inner, l, r) ==
    LET a == new(h, l)
        b == new(a.h, r)
        n == Fresh(b.h)
    IN  [h |-> [b.h EXCEPT ![n] = BinTree(inner, a.ret, b.ret)], ret |-> n]

\* Drop glue of BinTree / Option<Box<BinTree>>: the cell and, recursively,
\* the cells its two slots own are released.
RECURSIVE drop(_, _)
drop(h, n) ==
    IF n = Nil THEN h
    ELSE LET h1 == drop(h, h[n].left)
             h2 == drop(h1, h[n].right)
         IN  [h2 EXCEPT ![n] = Free]

\* ------------------------------------------------------------- mutators
\* BinTree::set_inner
set_inner(h, n, value) == [h EXCEPT ![n].inner = value]

\* BinTree::clear_left
clear_left(h, n) == [drop(h, h[n].left) EXCEPT ![n].left = Nil]

\* BinTree::clear_right
clear_right(h, n) == [drop(h, h[n].right) EXCEPT ![n].right = Nil]

\* A slip: a slot that holds a child has the child's value set, and the
\* grandchildren stay.
set_left_update(h, n, value) ==
    IF value # None
    THEN IF h[n].left # Nil
         THEN set_inner(h, h[n].left, value[1])
         ELSE LET a == new(h, value[1])
              IN  [a.h EXCEPT ![n].left = a.ret]
    ELSE clear_left(h, n)

\* BinTree::set_left: the new leaf is built first, the assignment then drops
\* what the slot held.
set_left(h, n, value) ==
    IF value # None
    THEN LET a == new(h, value[1])
         IN  [drop(a.h, h[n].left) EXCEPT ![n].left = a.ret]
    ELSE clear_left(h, n)

\* A slip: as set_left_update, on the right.
set_right_update(h, n, value) ==
    IF value # None
    THEN IF h[n].right # Nil
         THEN set_inner(h, h[n].right, value[1])
         ELSE LET a == new(h, value[1])
              IN  [a.h EXCEPT ![n].right = a.ret]
    ELSE clear_right(h, n)

\* BinTree::set_right
set_right(h, n, value) ==
    IF value # None
    THEN LET a == new(h, value[1])
         IN  [drop(a.h, h[n].right) EXCEPT ![n].right = a.ret]
    ELSE clear_right(h, n)

\* BinTree::get_left, BinTree::get_left_mut
get_left(h, n) == h[n].left

\* BinTree::get_right, BinTree::get_right_mut
get_right(h, n) == h[n].right

\* A slip: the Box is handed out and the slot keeps it.
pop_left_keep(h, n) == [h |-> h, ret |-> h[n].left]

\* BinTree::pop_left: Option::take leaves None in the slot.
pop_left(h, n) == [h |-> [h EXCEPT ![n].left = Nil], ret |-> h[n].left]

\* A slip: pop_right takes the left slot.
pop_right_left(h, n) == [h |-> [h EXCEPT ![n].left = Nil], ret |-> h[n].left]

\* BinTree::pop_right
pop_right(h, n) == [h |-> [h EXCEPT ![n].right = Nil], ret |-> h[n].right]

\* BinTree::take_left: self is consumed; the left Box is moved out, the
\* right slot and the node itself are dropped.
take_left(h, n) ==
    [h |-> [drop(h, h[n].right) EXCEPT ![n] = Free], ret |-> h[n].left]

\* BinTree::take_right
take_right(h, n) ==
    [h |-> [drop(h, h[n].left) EXCEPT ![n] = Free], ret |-> h[n].right]

\* BinTree::clone_inner (T: Clone copies the value)
clone_inner(h, n) == h[n].inner

\* A slip: the two Boxes are copied as pointers, not cloned.
clone_shallow(h, n) ==
    IF n = Nil THEN [h |-> h, ret |-> Nil]
    ELSE LET c == Fresh(h)
         IN  [h |-> [h EXCEPT ![c] = BinTree(clone_inner(h, n), h[n].left, h[n].right)],
              ret |-> c]

\* impl Clone for BinTree: inner, then left.clone(), then right.clone();
\* Option<Box<_>>::clone of Some(b) is a new Box holding b's clone.
RECURSIVE clone(_, _)
clone(h, n) ==
    IF n = Nil THEN [h |-> h, ret |-> Nil]
    ELSE LET inner == clone_inner(h, n)
             l == clone(h, h[n].left)
             r == clone(l.h, h[n].right)
             c == Fresh(r.h)
         IN  [h |-> [r.h EXCEPT ![c] = BinTree(inner, l.ret, r.ret)], ret |-> c]

\* ------------------------------------------------------------- queries
\* A slip: the right slot is visited first.
RECURSIVE collect_nodes_right_first(_, _)
collect_nodes_right_first(h, n) ==
    LET l == IF h[n].left # Nil
             THEN <<h[n].left>> \o collect_nodes_right_first(h, h[n].left)
             ELSE <<>>
        r == IF h[n].right # Nil
             THEN <<h[n].right>> \o collect_nodes_right_first(h, h[n].right)
             ELSE <<>>
    IN  r \o l

\* BinTree::collect_nodes
RECURSIVE collect_nodes(_, _)
collect_nodes(h, n) ==
    LET l == IF h[n].left # Nil
             THEN <<h[n].left>> \o collect_nodes(h, h[n].left)
             ELSE <<>>
        r == IF h[n].right # Nil
             THEN <<h[n].right>> \o collect_nodes(h, h[n].right)
             ELSE <<>>
    IN  l \o r

\* A slip: the head node is not counted.
len_without_head(h, n) == Len(collect_nodes(h, n))

\* BinTree::len
len(h, n) == Len(collect_nodes(h, n)) + 1

\* A slip: the values are those of collect_nodes() alone.
collect_all_values_without_head(h, n) ==
    LET nodes == collect_nodes(h, n)
    IN  [i \in 1..Len(nodes) |-> h[nodes[i]].inner]

\* BinTree::collect_all_values
collect_all_values(h, n) ==
    LET nodes == collect_nodes(h, n)
    IN  <<h[n].inner>> \o [i \in 1..Len(nodes) |-> h[nodes[i]].inner]

\* A slip: where there is no left child the walk goes on to the right.
RECURSIVE leftmost_or_right(_, _)
leftmost_or_right(h, n) ==
    IF get_left(h, n) # Nil THEN leftmost_or_right(h, get_left(h, n))
    ELSE IF get_right(h, n) # Nil THEN leftmost_or_right(h, get_right(h, n))
    ELSE n

\* BinTree::leftmost
RECURSIVE leftmost(_, _)
leftmost(h, n) ==
    IF get_left(h, n) # Nil THEN leftmost(h, get_left(h, n)) ELSE n

\* BinTree::rightmost
RECURSIVE rightmost(_, _)
rightmost(h, n) ==
    IF get_right(h, n) # Nil THEN rightmost(h, get_right(h, n)) ELSE n

\* ----------------------------------------------------------- the caller
\* The cells of the subtree at n (n included), by the slots alone.
RECURSIVE Owned(_, _)
Owned(h, n) ==
    IF n = Nil THEN {} ELSE {n} \cup Owned(h, h[n].left) \cup Owned(h, h[n].right)

Size(h, n) == Cardinality(Owned(h, n))
Range(s) == {s[i] : i \in 1..Len(s)}
Without(s, x) == SelectSeq(s, LAMBDA y : y # x)
AppendSome(s, x) == IF x = Nil THEN s ELSE Append(s, x)

\* The cells in the order the caller's trees reach them.
RECURSIVE PreOrder(_, _)
PreOrder(h, n) ==
    IF n = Nil THEN <<>>
    ELSE <<n>> \o PreOrder(h, h[n].left) \o PreOrder(h, h[n].right)

RECURSIVE Visit(_, _)
Visit(h, rs) ==
    IF rs = <<>> THEN <<>> ELSE PreOrder(h, Head(rs)) \o Visit(h, Tail(rs))

RECURSIVE Ascending(_)
Ascending(S) ==
    IF S = {} THEN <<>>
    ELSE LET m == CHOOSE x \in S : \A y \in S : x <= y
         IN  <<m>> \o Ascending(S \ {m})

\* s without its repeated entries (first occurrences kept).
RECURSIVE Distinct(_, _)
Distinct(s, seen) ==
    IF s = <<>> THEN <<>>
    ELSE IF Head(s) \in seen THEN Distinct(Tail(s), seen)
    ELSE <<Head(s)>> \o Distinct(Tail(s), seen \cup {Head(s)})

\* The cells in their new order: those the caller's trees reach, then any
\* other live cell.
CanonOrder(h, rs) ==
    LET seen == Distinct(Visit(h, rs), {})
    IN  seen \o Ascending(Live(h) \ Range(seen))

\* The new name of cell n: its place in ord (Nil for a cell not in it).
Rename(ord, n) ==
    IF \E i \in 1..Len(ord) : ord[i] = n
    THEN CHOOSE i \in 1..Len(ord) : ord[i] = n
    ELSE Nil

\* The heap with its cells renamed by ord.
Canon(h, ord) ==
    [k \in Nodes |->
        IF k <= Len(ord)
        THEN [h[ord[k]] EXCEPT !.left = Rename(ord, @), !.right = Rename(ord, @)]
        ELSE Free]

\* A step's outcome: the heap h and the caller's trees rs, kept when they
\* fit the bounds.
Commit(h, rs) ==
    /\ Cardinality(Live(h)) <= MaxNodes
    /\ Len(rs) <= MaxRoots
    /\ \E ord \in {CanonOrder(h, rs)} :
        /\ heap' = Canon(h, ord)
        /\ roots' = [i \in 1..Len(rs) |-> Rename(ord, rs[i])]

Init ==
    /\ heap = EmptyHeap
    /\ roots = <<>>

\* let t = BinTree::new(v);
New(v) ==
    LET a == new(heap, v)
    IN  Commit(a.h, Append(roots, a.ret))

\* let t = BinTree::new_with_nodes(v, l, r);
NewWithNodes(v, l, r) ==
    LET a == new_with_nodes(heap, v, l, r)
    IN  Commit(a.h, Append(roots, a.ret))

\* The &mut self methods are called on any node: a tree the caller owns or,
\* through get_left_mut / get_right_mut, any of its descendants.
SetInner(n, v) ==
    /\ n \in Live(heap)
    /\ Commit(set_inner(heap, n, v), roots)

SetLeft(n, v) ==
    /\ n \in Live(heap)
    /\ Commit(set_left(heap, n, v), roots)

SetRight(n, v) ==
    /\ n \in Live(heap)
    /\ Commit(set_right(heap, n, v), roots)

ClearLeft(n) ==
    /\ n \in Live(heap)
    /\ Commit(clear_left(heap, n), roots)

ClearRight(n) ==
    /\ n \in Live(heap)
    /\ Commit(clear_right(heap, n), roots)

\* let b = n.pop_left();  a None that comes back owns nothing.
PopLeft(n) ==
    /\ n \in Live(heap)
    /\ LET a == pop_left(heap, n)
       IN  Commit(a.h, AppendSome(roots, a.ret))

PopRight(n) ==
    /\ n \in Live(heap)
    /\ LET a == pop_right(heap, n)
       IN  Commit(a.h, AppendSome(roots, a.ret))

\* let b = t.take_left();  self is consumed: t is a tree the caller owns.
TakeLeft(n) ==
    /\ n \in Range(roots)
    /\ LET a == take_left(heap, n)
       IN  Commit(a.h, AppendSome(Without(roots, n), a.ret))

TakeRight(n) ==
    /\ n \in Range(roots)
    /\ LET a == take_right(heap, n)
       IN  Commit(a.h, AppendSome(Without(roots, n), a.ret))

\* let c = n.clone();
Clone(n) ==
    /\ n \in Live(heap)
    /\ LET a == clone(heap, n)
       IN  Commit(a.h, Append(roots, a.ret))

\* An owned tree goes out of scope.
Drop(n) ==
    /\ n \in Range(roots)
    /\ Commit(drop(heap, n), Without(roots, n))

Next ==
    \/ \E v \in Values : New(v)
    \/ \E v, l, r \in Values : NewWithNodes(v, l, r)
    \/ \E n \in Nodes, v \in Values : SetInner(n, v)
    \/ \E n \in Nodes, v \in Options : SetLeft(n, v)
    \/ \E n \in Nodes, v \in Options : SetRight(n, v)
    \/ \E n \in Nodes : ClearLeft(n)
    \/ \E n \in Nodes : ClearRight(n)
    \/ \E n \in Nodes : PopLeft(n)
    \/ \E n \in Nodes : PopRight(n)
    \/ \E n \in Nodes : TakeLeft(n)
    \/ \E n \in Nodes : TakeRight(n)
    \/ \E n \in Nodes : Clone(n)
    \/ \E n \in Nodes : Drop(n)

Spec == Init /\ [][Next]_vars

\* ------------------------------------------------------------ vocabulary
\* The subtree at n as a value: <<>> for an empty slot, else
\* <<inner, left subtree, right subtree>>.
RECURSIVE Tree(_, _)
Tree(h, n) ==
    IF n = Nil THEN <<>>
    ELSE <<h[n].inner, Tree(h, h[n].left), Tree(h, h[n].right)>>

Leaf(x) == <<x, <<>>, <<>>>>

Children(h, S) == ({h[m].left : m \in S} \cup {h[m].right : m \in S}) \ {Nil}

\* The cells below n, by a closure that ends on any heap.
RECURSIVE Closure(_, _, _)
Closure(h, S, k) ==
    IF k = 0 THEN S ELSE Closure(h, S \cup Children(h, S), k - 1)

Descendants(h, n) == Closure(h, Children(h, {n}), Capacity)
Reach(h, n) == {n} \cup Descendants(h, n)

\* The slots that hold n.
Parents(h, n) ==
    {ps \in Live(h) \X {"left", "right"} : h[ps[1]][ps[2]] = n}

\* Ownership is tree-shaped.
WellFormed(h, rs) ==
    /\ \A n \in Live(h) : Cardinality(Parents(h, n)) <= 1
    /\ \A i \in 1..Len(rs) : Parents(h, rs[i]) = {}
    /\ \A i, j \in 1..Len(rs) : i # j => Reach(h, rs[i]) \cap Reach(h, rs[j]) = {}
    /\ \A n \in Live(h) : n \notin Descendants(h, n)

\* ------------------------------------------------------------------ C1
\* C1: after any sequence of new, new_with_nodes, set_left/right,
\* clear_left/right, pop_left/right, take_left/right and clone, every node is
\* held by at most one slot, the trees the caller owns (a popped subtree and
\* its former parent, a clone and its original) share no node, and no node
\* is its own descendant.
C1_TreeShaped == WellFormed(heap, roots)

\* Two owned trees with the same shape and values, of two nodes or more:
\* what a clone leaves beside its original.
C1_Witness ==
    /\ Len(roots) = 2
    /\ Size(heap, roots[1]) >= 2
    /\ Tree(heap, roots[1]) = Tree(heap, roots[2])
    /\ WellFormed(heap, roots)

\* ------------------------------------------------------------------ C2
Index(s, x) == {i \in 1..Len(s) : s[i] = x}

CollectNodesOrder(h, n) ==
    LET nodes == collect_nodes(h, n)
        a == Size(h, h[n].left)
        b == Size(h, h[n].right)
    IN  /\ Len(nodes) = a + b
        /\ Index(nodes, n) = {}
        /\ \A m \in Owned(h, n) \ {n} : Cardinality(Index(nodes, m)) = 1
        /\ \A i \in 1..a : nodes[i] \in Owned(h, h[n].left)
        /\ \A i \in (a + 1)..(a + b) : nodes[i] \in Owned(h, h[n].right)
        /\ a > 0 => nodes[1] = h[n].left
        /\ b > 0 => nodes[a + 1] = h[n].right
        /\ \A i, j \in 1..Len(nodes) :
              nodes[j] \in Owned(h, nodes[i]) \ {nodes[i]} => i < j

\* C2: collect_nodes() of a tree with a nodes on the left and b on the right
\* has a + b entries, not the root, every node once, the a left ones before
\* the b right ones, each child before its own descendants.
C2_CollectNodes == \A n \in Live(heap) : CollectNodesOrder(heap, n)

\* A node with a child and a grandchild on the left and a child on the
\* right.
C2_Witness ==
    \E n \in Live(heap) :
        /\ Size(heap, heap[n].left) >= 2
        /\ Size(heap, heap[n].right) >= 1
        /\ CollectNodesOrder(heap, n)

\* ------------------------------------------------------------------ C3
LenOf(h, slot) == IF slot = Nil THEN 0 ELSE len(h, slot)

\* The doctest tree of leftmost(): new_with_nodes(-77, 31, 128), then
\* set_left(Some(69)) on its left child.
DoctestTree ==
    LET a == new_with_nodes(EmptyHeap, -77, 31, 128)
    IN  [h |-> set_left(a.h, get_left(a.h, a.ret), Some(69)), ret |-> a.ret]

\* C3: len() is 1 + len(left, 0 if absent) + len(right, 0 if absent); len()
\* of new(v) is 1; the doctest tree has len() 4.
C3_Len ==
    /\ \A n \in Live(heap) :
          len(heap, n) = 1 + LenOf(heap, heap[n].left) + LenOf(heap, heap[n].right)
    /\ \A v \in Values : len(new(heap, v).h, new(heap, v).ret) = 1
    /\ len(DoctestTree.h, DoctestTree.ret) = 4

\* The caller holds a tree of the doctest's shape: a left child with a left
\* leaf, and a right leaf.
C3_Witness ==
    \E i \in 1..Len(roots), v, l, r, x \in Values :
        /\ Tree(heap, roots[i]) = <<v, <<l, Leaf(x), <<>>>>, Leaf(r)>>
        /\ len(heap, roots[i]) = 4

\* ------------------------------------------------------------------ C4
\* C4: collect_all_values() has len() entries, the root's value first, then
\* the values of collect_nodes() in its order.
C4_CollectAllValues ==
    \A n \in Live(heap) :
        LET values == collect_all_values(heap, n)
            nodes == collect_nodes(heap, n)
        IN  /\ Len(values) = len(heap, n)
            /\ values[1] = heap[n].inner
            /\ Len(values) = Len(nodes) + 1
            /\ \A i \in 1..Len(nodes) : values[i + 1] = heap[nodes[i]].inner

\* A tree of four nodes whose values tell the order apart.
C4_Witness ==
    \E n \in Live(heap) :
        /\ collect_all_values(heap, n) = <<1, 2, 1, 2>>
        /\ heap[n].left # Nil /\ heap[heap[n].left].left # Nil

\* ------------------------------------------------------------------ C5
\* What pop_left / pop_right (a, with the slot it emptied and the other
\* one) did to node n of heap h.
Popped(h, n, a, slot, other) ==
    /\ a.ret = h[n][slot]
    /\ Tree(a.h, a.ret) = Tree(h, h[n][slot])
    /\ a.ret # Nil => Parents(a.h, a.ret) = {}
    /\ a.h[n][slot] = Nil
    /\ a.h[n].inner = h[n].inner
    /\ a.h[n][other] = h[n][other]
    /\ Tree(a.h, a.h[n][other]) = Tree(h, h[n][other])
    /\ Live(a.h) = Live(h)

\* C5: pop_left() (pop_right()) returns the subtree of the left (right)
\* slot whole, or None for an empty slot; the slot is then empty, and the
\* node's value and other subtree are as before.
C5_Pop ==
    \A n \in Live(heap) :
        /\ Popped(heap, n, pop_left(heap, n), "left", "right")
        /\ Popped(heap, n, pop_right(heap, n), "right", "left")

\* A node with a non-leaf on the left and a child on the right, popped.
C5_Witness ==
    \E n \in Live(heap) :
        /\ Size(heap, heap[n].left) >= 2
        /\ heap[n].right # Nil
        /\ pop_left(heap, n).ret = heap[n].left
        /\ Tree(pop_left(heap, n).h, n) = <<heap[n].inner, <<>>, Tree(heap, heap[n].right)>>

\* ------------------------------------------------------------------ C6
\* What set_left / set_right (Some(x)) made of node n of heap h, in h2.
SetTo(h, n, h2, x, slot, other) ==
    /\ h2[n][slot] # Nil
    /\ h2[n][slot] \notin Live(h)
    /\ Tree(h2, h2[n][slot]) = Leaf(x)
    /\ h2[n].inner = h[n].inner
    /\ h2[n][other] = h[n][other]
    /\ Tree(h2, h2[n][other]) = Tree(h, h[n][other])
    /\ \A m \in Owned(h, h[n][slot]) : ~h2[m].live
    /\ Live(h2) = (Live(h) \ Owned(h, h[n][slot])) \cup {h2[n][slot]}

\* C6: set_left(Some(x)) (set_right(Some(x))) leaves a leaf of value x in
\* the slot and discards the subtree that was there, grandchildren
\* included; the node's value and other slot are as before.
C6_SetChild ==
    \A n \in Live(heap), x \in Values :
        /\ SetTo(heap, n, set_left(heap, n, Some(x)), x, "left", "right")
        /\ SetTo(heap, n, set_right(heap, n, Some(x)), x, "right", "left")

\* A node whose left child has a child of its own is set a new left leaf.
C6_Witness ==
    \E n \in Live(heap) :
        /\ Size(heap, heap[n].left) >= 2
        /\ heap[n].right # Nil
        /\ len(set_left(heap, n, Some(1)), n) = len(heap, n) - 1
        /\ Tree(set_left(heap, n, Some(1)), n)
              = <<heap[n].inner, Leaf(1), Tree(heap, heap[n].right)>>

\* ------------------------------------------------------------------ C7
\* What a reader sees of node n.
Observable(h, n) ==
    <<h[n].inner, Tree(h, h[n].left), Tree(h, h[n].right), len(h, n),
      collect_all_values(h, n)>>

\* p: the pop; hA: the set after the pop; hB: the set alone.
PopThenSetAs(h, n, p, hA, hB, slot) ==
    /\ Observable(hA, n) = Observable(hB, n)
    /\ p.ret # Nil =>
          /\ p.ret \notin Owned(hA, n)
          /\ Tree(hA, p.ret) = Tree(h, h[n][slot])
    /\ len(hA, n) = len(h, n) - LenOf(h, h[n][slot]) + 1
    /\ LenOf(h, h[n][slot]) = 3 => len(hA, n) = len(h, n) - 2

\* C7: pop_child(side) then set_child(side, Some(x)) leaves the parent as
\* set_child(side, Some(x)) alone does; the popped subtree is not put back:
\* after a 3-node subtree is popped and a leaf set, len() is 2 less.
C7_PopThenSet ==
    \A n \in Live(heap), x \in Values :
        /\ PopThenSetAs(heap, n, pop_left(heap, n),
                        set_left(pop_left(heap, n).h, n, Some(x)),
                        set_left(heap, n, Some(x)), "left")
        /\ PopThenSetAs(heap, n, pop_right(heap, n),
                        set_right(pop_right(heap, n).h, n, Some(x)),
                        set_right(heap, n, Some(x)), "right")

\* A 3-node left subtree is popped and a leaf set in its place.
C7_Witness ==
    \E n \in Live(heap) :
        /\ LenOf(heap, heap[n].left) = 3
        /\ len(set_left(pop_left(heap, n).h, n, Some(2)), n) = len(heap, n) - 2
        /\ Size(set_left(pop_left(heap, n).h, n, Some(2)), heap[n].left) = 3

\* ------------------------------------------------------------------ C8
\* The node k steps down the slot from n (Nil past the end of the chain).
RECURSIVE Down(_, _, _, _)
Down(h, n, slot, k) ==
    IF k = 0 \/ n = Nil THEN n ELSE Down(h, h[n][slot], slot, k - 1)

\* The depth of the chain of slot below n.
Depth(h, n, slot) == Cardinality({k \in 1..Capacity : Down(h, n, slot, k) # Nil})

\* C8: leftmost() is the node at the end of the chain of left children (the
\* root when it has no left child, the node at depth d of a chain of depth
\* d), and rightmost() the same on the right.
C8_Extremal ==
    \A n \in Live(heap) :
        /\ leftmost(heap, n) = Down(heap, n, "left", Depth(heap, n, "left"))
        /\ heap[leftmost(heap, n)].left = Nil
        /\ heap[n].left = Nil => leftmost(heap, n) = n
        /\ rightmost(heap, n) = Down(heap, n, "right", Depth(heap, n, "right"))
        /\ heap[rightmost(heap, n)].right = Nil
        /\ heap[n].right = Nil => rightmost(heap, n) = n

\* A left chain of depth 2 below a node that has a right child too.
C8_Witness ==
    \E n \in Live(heap) :
        /\ Depth(heap, n, "left") = 2
        /\ heap[n].right # Nil
        /\ leftmost(heap, n) = heap[heap[n].left].left

\* ------------------------------------------------------------------ C9
\* The heaps one mutation of node c away from h.
Mutations(h, c) ==
    {set_inner(h, c, v) : v \in Values}
        \cup {set_left(h, c, o) : o \in Options}
        \cup {set_right(h, c, o) : o \in Options}
        \cup {clear_left(h, c), clear_right(h, c),
              pop_left(h, c).h, pop_right(h, c).h}

\* a: the clone of node n of heap h.
ClonedApart(h, n, a) ==
    /\ Tree(a.h, a.ret) = Tree(h, n)
    /\ Owned(a.h, a.ret) \cap Live(h) = {}
    /\ Live(a.h) = Live(h) \cup Owned(a.h, a.ret)
    /\ \A m \in Live(h) : a.h[m] = h[m]
    /\ \A c \in Owned(a.h, a.ret) : \A h2 \in Mutations(a.h, c) :
          Tree(h2, n) = Tree(h, n)
    /\ \A c \in Owned(h, n) : \A h2 \in Mutations(a.h, c) :
          Tree(h2, a.ret) = Tree(h, n)

\* A mutation of node c leaves every cell that is not c or below it as it
\* was.
Framed(h, c) ==
    \A h2 \in Mutations(h, c) : \A m \in Live(h) \ Owned(h, c) : h2[m] = h[m]

\* C9: clone() has the shape and values of its original and shares nothing
\* with it: a mutation of either (of the node or of a descendant) leaves the
\* other as it was.
C9_Clone ==
    \A n \in Live(heap) :
        /\ ClonedApart(heap, n, clone(heap, n))
        /\ Framed(heap, n)

\* A 3-node tree is cloned and the clone's root value is set: the
\* original keeps its own.
C9_Witness ==
    \E i \in 1..Len(roots) :
        LET n == roots[i]
            a == clone(heap, n)
            h2 == set_inner(a.h, a.ret, 2)
        IN  /\ Tree(heap, n) = <<1, Leaf(1), Leaf(2)>>
            /\ Tree(h2, a.ret) = <<2, Leaf(1), Leaf(2)>>
            /\ Tree(h2, n) = <<1, Leaf(1), Leaf(2)>>

\* ----------------------------------------------------------------- C10
\* new(v), then set_left(Some(l)), then set_right(Some(r)).
NewThenSet(h, v, l, r) ==
    LET a == new(h, v)
    IN  [h |-> set_right(set_left(a.h, a.ret, Some(l)), a.ret, Some(r)),
         ret |-> a.ret]

\* C10: new_with_nodes(v, l, r) has value v, a left leaf l, a right leaf r
\* and len() 3, and is the tree that new(v), set_left(Some(l)) and
\* set_right(Some(r)) build.
C10_NewWithNodes ==
    \A v, l, r \in Values :
        LET a == new_with_nodes(heap, v, l, r)
            b == NewThenSet(heap, v, l, r)
        IN  /\ a.h[a.ret].inner = v
            /\ Tree(a.h, a.h[a.ret].left) = Leaf(l)
            /\ Tree(a.h, a.h[a.ret].right) = Leaf(r)
            /\ len(a.h, a.ret) = 3
            /\ Tree(a.h, a.ret) = Tree(b.h, b.ret)
            /\ len(b.h, b.ret) = 3
            /\ \A m \in Live(heap) : a.h[m] = heap[m]
            /\ Cardinality(Live(a.h)) = Cardinality(Live(heap)) + 3

\* The caller holds a tree just as new_with_nodes(1, 2, 1) builds it,
\* beside another tree.
C10_Witness ==
    \E i \in 1..Len(roots) :
        /\ Len(roots) = 2
        /\ Tree(heap, roots[i]) = <<1, Leaf(2), Leaf(1)>>
        /\ Tree(new_with_nodes(heap, 1, 2, 1).h, new_with_nodes(heap, 1, 2, 1).ret)
              = Tree(heap, roots[i])

====
